---- MODULE Spec2Model ----
(***************************************************************************)
(* Chunked date-range event cache of the payment report generator:         *)
(* window planner (getDateRanges), gap detector and fetch loop             *)
(* (fetchMissingChunks), chunk reader (loadChunksInDateRange) and the      *)
(* legacy cache migration (migratePaymentErrorCache).                      *)
(*                                                                         *)
(* A Date object is an instant counted in ticks, TicksPerDay ticks to the  *)
(* UTC day; a YYYY-MM-DD string is the number of its day, so that the      *)
(* string comparisons of the source are comparisons of day numbers.        *)
(***************************************************************************)
EXTENDS Integers, Sequences, FiniteSets, TLC

\* ---- bounds of the model ------------------------------------------------
\* last calendar day of the modelled calendar (days are 0..MaxDay)
MaxDay == 3
\* resolution of a Date object within one day
TicksPerDay == 2
\* CHUNK_DAYS of fetch_payment_data.js (30 in the source), scaled to the calendar
CHUNK_DAYS == 2
\* CHUNK_DAYS of migrate_cache_to_chunks.js (7 in the source), scaled likewise
MIGRATE_CHUNK_DAYS == 2
\* last calendar day of the calendar the planner alone is tried on
PlanMaxDay == 30
\* largest chunkDays argument tried on the planner alone
MaxChunkDays == 7
\* pages the upstream serves for one window
MaxPages == 2
\* longest event list handed to the aggregators alone
MaxEvents == 3

\* a missing string field; a missing date is NoDate
None == "none"
NoDate == 0 - 1

Days == 0..MaxDay
\* the ranges asked for: every start <= end, and one with the start after the end
RequestedRanges == { r \in Days \X Days : r[1] <= r[2] \/ r = << MaxDay, 0 >> }
\* the Date objects handed to the planner alone
Times == 0..((PlanMaxDay + 1) * TicksPerDay - 1)

\* ---- date utilities -----------------------------------------------------
formatDate(date) == date \div TicksPerDay

parseDate(dateStr) == dateStr * TicksPerDay

addDays(date, days) == date + days * TicksPerDay

\* ---- window planner -----------------------------------------------------
RECURSIVE getDateRangesLoop(_, _, _)
getDateRangesLoop(currentStart, endDate, chunkDays) ==
    IF ~(currentStart < endDate)
    THEN << >>
    ELSE LET added == addDays(currentStart, chunkDays - 1)
             currentEnd == IF added > endDate THEN endDate ELSE added
         IN  << [start |-> formatDate(currentStart), end |-> formatDate(currentEnd)] >>
             \o getDateRangesLoop(addDays(currentEnd, 1), endDate, chunkDays)

\* the planner with the next window starting on the day the previous one ends
RECURSIVE getDateRangesNoStep(_, _, _)
getDateRangesNoStep(currentStart, endDate, chunkDays) ==
    IF ~(currentStart < endDate)
    THEN << >>
    ELSE LET added == addDays(currentStart, chunkDays - 1)
             currentEnd == IF added > endDate THEN endDate ELSE added
         IN  << [start |-> formatDate(currentStart), end |-> formatDate(currentEnd)] >>
             \o getDateRangesNoStep(IF chunkDays > 1 THEN currentEnd ELSE addDays(currentEnd, 1),
                                    endDate, chunkDays)

\* the planner with the loop running while currentStart <= endDate
RECURSIVE getDateRangesInclusive(_, _, _)
getDateRangesInclusive(currentStart, endDate, chunkDays) ==
    IF ~(currentStart <= endDate)
    THEN << >>
    ELSE LET added == addDays(currentStart, chunkDays - 1)
             currentEnd == IF added > endDate THEN endDate ELSE added
         IN  << [start |-> formatDate(currentStart), end |-> formatDate(currentEnd)] >>
             \o getDateRangesInclusive(addDays(currentEnd, 1), endDate, chunkDays)

getDateRanges(startDate, endDate, chunkDays) ==
    getDateRangesLoop(startDate, endDate, chunkDays)

\* ---- upstream events ----------------------------------------------------
\* The events the upstream holds for one issue, as the API returns them.
NoUser == [id |-> None, email |-> None, ip_address |-> None]

RawE1 == [id |-> "e1", eventID |-> None, dateCreated |-> parseDate(1), dateReceived |-> NoDate,
          user |-> [id |-> "u1", email |-> "u1@x.y", ip_address |-> "9.9.9.9"]]
RawE2 == [id |-> "e2", eventID |-> None, dateCreated |-> NoDate,
          dateReceived |-> parseDate(2) + (TicksPerDay - 1),
          user |-> [id |-> None, email |-> None, ip_address |-> "1.2.3.4"]]
RawE3 == [id |-> None, eventID |-> "e3", dateCreated |-> NoDate, dateReceived |-> NoDate,
          user |-> NoUser]
RawE4 == [id |-> "e4", eventID |-> None, dateCreated |-> parseDate(3), dateReceived |-> NoDate,
          user |-> [id |-> None, email |-> "a@b.c", ip_address |-> "5.6.7.8"]]

\* new Date().toISOString() at the time of the run: the last instant of the calendar
now == parseDate(MaxDay) + (TicksPerDay - 1)

\* ---- file utilities -----------------------------------------------------
\* `${startDate}_to_${endDate}.json`
getChunkFilename(startDate, endDate) == << startDate, endDate >>

\* directory listing filtered and parsed by the file name pattern
loadExistingChunks(dir) ==
    { [filename |-> f, start |-> f[1], end |-> f[2]] : f \in DOMAIN dir }

\* the events written last first
saveChunkReversed(dir, startDate, endDate, events) ==
    LET chunkFile == getChunkFilename(startDate, endDate)
        chunkData == [dateRangeStart |-> startDate, dateRangeEnd |-> endDate,
                      totalEvents |-> Len(events),
                      events |-> [j \in 1..Len(events) |-> events[Len(events) + 1 - j]]]
    IN  [f \in DOMAIN dir \cup {chunkFile} |-> IF f = chunkFile THEN chunkData ELSE dir[f]]

saveChunk(dir, startDate, endDate, events) ==
    LET chunkFile == getChunkFilename(startDate, endDate)
        chunkData == [dateRangeStart |-> startDate, dateRangeEnd |-> endDate,
                      totalEvents |-> Len(events), events |-> events]
    IN  [f \in DOMAIN dir \cup {chunkFile} |-> IF f = chunkFile THEN chunkData ELSE dir[f]]

\* ---- fetcher ------------------------------------------------------------
\* || yielding its right operand whenever that one is present
OrSecond(a, b) == IF b # None THEN b ELSE a

Or(a, b) == IF a # None THEN a ELSE b
OrDate(a, b) == IF a # NoDate THEN a ELSE b

extractMinimalEventData(event) ==
    [timestamp |-> OrDate(event.dateCreated, OrDate(event.dateReceived, now)),
     eventId   |-> Or(event.id, event.eventID),
     userId    |-> Or(event.user.id, Or(event.user.email, Or(event.user.ip_address, "anonymous")))]

\* the for loop without the comparison against the window's start
RECURSIVE filterPageNoStart(_, _, _)
filterPageNoStart(data, startDate, endDate) ==
    IF data = << >> THEN << >>
    ELSE LET event == Head(data)
             eventDate == OrDate(event.dateCreated, event.dateReceived)
             keep == /\ eventDate # NoDate
                     /\ formatDate(eventDate) <= endDate
         IN  (IF keep THEN << extractMinimalEventData(event) >> ELSE << >>)
             \o filterPageNoStart(Tail(data), startDate, endDate)

\* the body of the for loop over one page: keep dated events of the window
RECURSIVE filterPage(_, _, _)
filterPage(data, startDate, endDate) ==
    IF data = << >> THEN << >>
    ELSE LET event == Head(data)
             eventDate == OrDate(event.dateCreated, event.dateReceived)
             keep == /\ eventDate # NoDate
                     /\ formatDate(eventDate) >= startDate
                     /\ formatDate(eventDate) <= endDate
         IN  (IF keep THEN << extractMinimalEventData(event) >> ELSE << >>)
             \o filterPage(Tail(data), startDate, endDate)

\* the while loop over the pages; a page that is not ok makes the request throw
RECURSIVE fetchPagesLoop(_, _, _, _, _)
fetchPagesLoop(pages, pageNum, allEvents, startDate, endDate) ==
    LET page == pages[pageNum]
    IN  IF ~page.ok
        THEN [threw |-> TRUE, events |-> allEvents]
        ELSE LET collected == allEvents \o filterPage(page.data, startDate, endDate)
             IN  IF page.next /\ Len(page.data) # 0
                 THEN fetchPagesLoop(pages, pageNum + 1, collected, startDate, endDate)
                 ELSE [threw |-> FALSE, events |-> collected]

fetchDateRangeChunk(pages, startDate, endDate) ==
    LET r == fetchPagesLoop(pages, 1, << >>, startDate, endDate)
    IN  IF r.threw THEN << >> ELSE r.events

\* The upstream serves the events it holds of the issue newest first, whatever the
\* window asked for, cut into pages; every page but the last carries a rel="next" link,
\* and the last page is either a page without that link or an empty page. Any request
\* can fail. The upstream holds the events of the issue, or none of them (yet).
UpstreamList == << RawE3, RawE2, RawE1 >>
UpstreamHeld == { UpstreamList, << >> }

RECURSIVE Splits(_, _)
Splits(list, n) ==
    IF n = 1 THEN { << list >> }
    ELSE IF Len(list) < n THEN {}
    ELSE UNION { { << SubSeq(list, 1, k) >> \o rest :
                     rest \in Splits(SubSeq(list, k + 1, Len(list)), n - 1) } :
                 k \in 1..(Len(list) - (n - 1)) }

PagesOf(split, closing) ==
    [j \in 1..Len(split) |-> [ok |-> TRUE, next |-> (closing \/ j < Len(split)), data |-> split[j]]]
    \o (IF closing THEN << [ok |-> TRUE, next |-> TRUE, data |-> << >>] >> ELSE << >>)

FailedAt(pages, j) ==
    SubSeq(pages, 1, j - 1) \o << [ok |-> FALSE, next |-> FALSE, data |-> << >>] >>

Served ==
    { PagesOf(split, closing) :
        split \in UNION { Splits(held, n) : held \in UpstreamHeld, n \in 1..Len(UpstreamList) },
        closing \in BOOLEAN }

Responses ==
    { r \in Served \cup UNION { { FailedAt(pages, j) : j \in 1..Len(pages) } : pages \in Served } :
        Len(r) <= MaxPages }

\* ---- gap detector -------------------------------------------------------
existingRangesOf(existingChunks) == { << c.start, c.end >> : c \in existingChunks }

\* a gap detector that takes any overlapping chunk for the window
missingRangesByOverlap(allRanges, existingRanges) ==
    SelectSeq(allRanges, LAMBDA r : \A x \in existingRanges : x[2] < r.start \/ x[1] > r.end)

\* a gap detector that never consults the disk
missingRangesAll(allRanges, existingRanges) == allRanges

\* a gap detector that returns the missing windows latest first
missingRangesLatestFirst(allRanges, existingRanges) ==
    LET missing == SelectSeq(allRanges, LAMBDA r : << r.start, r.end >> \notin existingRanges)
    IN  [j \in 1..Len(missing) |-> missing[Len(missing) + 1 - j]]

missingRangesOf(allRanges, existingRanges) ==
    SelectSeq(allRanges, LAMBDA r : << r.start, r.end >> \notin existingRanges)

\* ---- reader -------------------------------------------------------------
\* event.timestamp.split('T')[0]
timestampDate(timestamp) == timestamp \div TicksPerDay

RECURSIVE filterChunkEvents(_, _, _)
filterChunkEvents(events, startDate, endDate) ==
    IF events = << >> THEN << >>
    ELSE LET event == Head(events)
             eventDate == timestampDate(event.timestamp)
         IN  (IF eventDate >= startDate /\ eventDate <= endDate THEN << event >> ELSE << >>)
             \o filterChunkEvents(Tail(events), startDate, endDate)

\* the overlap test taken for containment of the chunk in the range
chunkContained(chunkStart, chunkEnd, startDate, endDate) ==
    chunkStart >= startDate /\ chunkEnd <= endDate

chunkOverlaps(chunkStart, chunkEnd, startDate, endDate) ==
    chunkEnd >= startDate /\ chunkStart <= endDate

\* files is the directory listing, in the order readdirSync returns it
RECURSIVE loadChunksInDateRange(_, _, _, _)
loadChunksInDateRange(dir, files, startDate, endDate) ==
    IF files = << >> THEN << >>
    ELSE LET file == Head(files)
             chunkStart == file[1]
             chunkEnd == file[2]
         IN  (IF chunkOverlaps(chunkStart, chunkEnd, startDate, endDate)
              THEN filterChunkEvents(dir[file].events, startDate, endDate)
              ELSE << >>)
             \o loadChunksInDateRange(dir, Tail(files), startDate, endDate)

\* ---- legacy cache migration ---------------------------------------------
\* the legacy cache files the migration can find (cacheData.events)
LegacyFiles == { << RawE1, RawE2 >>, << RawE1 >>, << RawE4, RawE1, RawE2 >>,
                 << RawE3, RawE4, RawE1 >> }

RECURSIVE extractAll(_)
extractAll(events) ==
    IF events = << >> THEN << >>
    ELSE << extractMinimalEventData(Head(events)) >> \o extractAll(Tail(events))

\* the keys of eventsByDate, in insertion order
RECURSIVE eventDates(_, _)
eventDates(minimal, seen) ==
    IF minimal = << >> THEN << >>
    ELSE LET eventDate == timestampDate(Head(minimal).timestamp)
         IN  (IF eventDate \in seen THEN << >> ELSE << eventDate >>)
             \o eventDates(Tail(minimal), seen \cup {eventDate})

eventsByDate(minimal, date) ==
    SelectSeq(minimal, LAMBDA e : timestampDate(e.timestamp) = date)

\* parseDate of the migration is new Date(timestamp): the instant itself
minDateOf(minimal) ==
    CHOOSE t \in { e.timestamp : e \in { minimal[j] : j \in 1..Len(minimal) } } :
        \A j \in 1..Len(minimal) : t <= minimal[j].timestamp
maxDateOf(minimal) ==
    CHOOSE t \in { e.timestamp : e \in { minimal[j] : j \in 1..Len(minimal) } } :
        \A j \in 1..Len(minimal) : t >= minimal[j].timestamp

RECURSIVE collectChunkEvents(_, _, _)
collectChunkEvents(minimal, dates, range) ==
    IF dates = << >> THEN << >>
    ELSE (IF Head(dates) >= range.start /\ Head(dates) <= range.end
          THEN eventsByDate(minimal, Head(dates)) ELSE << >>)
         \o collectChunkEvents(minimal, Tail(dates), range)

\* the body of the save loop with nothing written
saveMigratedChunkSkipped(dir, range, minimal) == dir

\* the body of the save loop: the chunk of one window, written if it has events
saveMigratedChunk(dir, range, minimal) ==
    LET chunkEvents == collectChunkEvents(minimal, eventDates(minimal, {}), range)
        chunkFile == << range.start, range.end >>
        chunkData == [dateRangeStart |-> range.start, dateRangeEnd |-> range.end,
                      totalEvents |-> Len(chunkEvents), events |-> chunkEvents]
    IN  IF Len(chunkEvents) > 0
        THEN [f \in DOMAIN dir \cup {chunkFile} |->
                 IF f = chunkFile THEN chunkData ELSE dir[f]]
        ELSE dir

\* the whole save loop
RECURSIVE saveMigratedChunks(_, _, _)
saveMigratedChunks(dir, ranges, minimal) ==
    IF ranges = << >> THEN dir
    ELSE saveMigratedChunks(saveMigratedChunk(dir, Head(ranges), minimal), Tail(ranges),
                            minimal)

\* ---- aggregators -------------------------------------------------------
\* A string is the sequence of its tokens (words; a decimal number is written one digit
\* to the token); the empty string and a missing field are both << >>, as both are falsy.
UnknownKey == << "Unknown" >>
invalidCardNumberKey == << "Invalid", "card", "number", "(grouped)" >>
CardNumberSuffix == << "is", "not", "a", "valid", "card", "number" >>

OrString(a, b) == IF a # << >> THEN a ELSE b

\* reason.endsWith(suffix) taken for equality with the suffix
endsWithWhole(str, suffix) == str = suffix

endsWith(str, suffix) ==
    /\ Len(str) >= Len(suffix)
    /\ SubSeq(str, Len(str) - Len(suffix) + 1, Len(str)) = suffix

DigitTokens == { "0", "1", "2", "3", "4", "5", "6", "7", "8", "9" }
digitValue(token) ==
    CASE token = "0" -> 0 [] token = "1" -> 1 [] token = "2" -> 2 [] token = "3" -> 3
      [] token = "4" -> 4 [] token = "5" -> 5 [] token = "6" -> 6 [] token = "7" -> 7
      [] token = "8" -> 8 [] token = "9" -> 9

RECURSIVE decimalValue(_)
decimalValue(str) ==
    IF str = << >> THEN 0
    ELSE 10 * decimalValue(SubSeq(str, 1, Len(str) - 1)) + digitValue(str[Len(str)])

\* the integer a property key is the canonical decimal form of, or -1 when it is none
arrayIndex(key) ==
    IF /\ key # << >>
       /\ \A j \in 1..Len(key) : key[j] \in DigitTokens
       /\ (Len(key) = 1 \/ key[1] # "0")
    THEN decimalValue(key)
    ELSE 0 - 1

\* the keys created by the for loop, in the order of their creation
RECURSIVE insertedKeys(_, _)
insertedKeys(keyed, seen) ==
    IF keyed = << >> THEN << >>
    ELSE (IF Head(keyed).key \in seen THEN << >> ELSE << Head(keyed).key >>)
         \o insertedKeys(Tail(keyed), seen \cup {Head(keyed).key})

RECURSIVE ascendingIndexKeys(_)
ascendingIndexKeys(keys) ==
    IF keys = {} THEN << >>
    ELSE LET first == CHOOSE k \in keys : \A other \in keys : arrayIndex(k) <= arrayIndex(other)
         IN  << first >> \o ascendingIndexKeys(keys \ {first})

\* the order in which Object.entries enumerates the own keys of an object: integer keys
\* in ascending numeric order, then the other keys in the order of their creation
objectKeys(inserted) ==
    ascendingIndexKeys({ inserted[j] : j \in { a \in 1..Len(inserted) : arrayIndex(inserted[a]) >= 0 } })
    \o SelectSeq(inserted, LAMBDA k : arrayIndex(k) < 0)

\* Object.entries(data).map(...): key, count and users.size of every group
groupEntries(keyed) ==
    LET keys == objectKeys(insertedKeys(keyed, {}))
    IN  [j \in 1..Len(keys) |->
            [key |-> keys[j],
             count |-> Cardinality({ a \in 1..Len(keyed) : keyed[a].key = keys[j] }),
             uniqueUsers |-> Cardinality({ keyed[a].userId :
                                a \in { b \in 1..Len(keyed) : keyed[b].key = keys[j] } })]]

\* results.sort((a, b) => b.count - a.count): a stable sort, descending by count
RECURSIVE sortByCount(_)
sortByCount(results) ==
    IF results = << >> THEN << >>
    ELSE LET last == results[Len(results)]
             sorted == sortByCount(SubSeq(results, 1, Len(results) - 1))
             ahead == Cardinality({ j \in 1..Len(sorted) : sorted[j].count >= last.count })
         IN  SubSeq(sorted, 1, ahead) \o << last >> \o SubSeq(sorted, ahead + 1, Len(sorted))

errorReasonOf(event) ==
    LET reason == OrString(event.paymentErrorReason, UnknownKey)
    IN  IF endsWith(reason, CardNumberSuffix) THEN invalidCardNumberKey ELSE reason

processPaymentErrors(events) ==
    LET keyed == [j \in 1..Len(events) |->
                     [key |-> errorReasonOf(events[j]), userId |-> events[j].userId]]
        results == sortByCount(groupEntries(keyed))
    IN  [j \in 1..Len(results) |->
            [reason |-> results[j].key, count |-> results[j].count,
             uniqueUsers |-> results[j].uniqueUsers]]

processPaymentSuccess(events) ==
    LET keyed == [j \in 1..Len(events) |->
                     [key |-> OrString(events[j].merchant_id, UnknownKey),
                      userId |-> events[j].userId]]
        results == sortByCount(groupEntries(keyed))
    IN  [j \in 1..Len(results) |->
            [merchantId |-> results[j].key, count |-> results[j].count,
             uniqueUsers |-> results[j].uniqueUsers]]

\* the stored events handed to the aggregators alone
CardReason1 == << "4111" >> \o CardNumberSuffix
CardReason2 == << "1234" >> \o CardNumberSuffix
InsufficientFunds == << "Insufficient", "Funds" >>
ReportEvents ==
    { [paymentErrorReason |-> CardReason1, merchant_id |-> << "2", "0" >>, userId |-> "u1"],
      [paymentErrorReason |-> InsufficientFunds, merchant_id |-> << "3" >>, userId |-> "u2"],
      [paymentErrorReason |-> CardReason2, merchant_id |-> << "M-1" >>, userId |-> "u2"],
      [paymentErrorReason |-> << >>, merchant_id |-> << >>, userId |-> "u1"],
      [paymentErrorReason |-> CardNumberSuffix \o << "today" >>,
       merchant_id |-> << "0", "7" >>, userId |-> "u1"],
      [paymentErrorReason |-> InsufficientFunds, merchant_id |-> << "2", "0" >>, userId |-> "u1"] }

EventLists == UNION { [1..n -> ReportEvents] : n \in 0..MaxEvents }

\* ---- Gravity Forms -------------------------------------------------------
\* paging[page_size] of fetchFormEntries, scaled down
pageSize == 2
\* the pages after which the upstream has no full page left for a form
MaxFormPages == 2

\* some of the ten forms of FORMS
FORMS == {"applications", "login", "pleaseWait"}

\* the entries of a page: the upstream serves the entries it holds, whatever their
\* date_created; a request can fail (network error, HTTP status not ok)
FormEntries(offset, n) ==
    [j \in 1..n |-> [id |-> j, date_created |-> (offset + j) % (MaxDay + 1)]]
FormResponses ==
    { [ok |-> FALSE, entries |-> << >>] }
    \cup { [ok |-> TRUE, entries |-> FormEntries(offset, n)] :
             offset \in {0, 1}, n \in 0..pageSize }
IsFullPage(response) == response.ok /\ Len(response.entries) = pageSize
\* what the upstream can answer to the request of the given page
FormResponsesAt(page) ==
    { r \in FormResponses : page >= MaxFormPages => ~IsFullPage(r) }

\* the date ranges the Gravity Forms data is asked for
GravityRanges == { << 1, 1 >>, << 0, MaxDay >>, << 1, MaxDay - 1 >> }

\* entries.filter(...) of fetchFormEntries
filterEntries(entries, startDateStr, endDateStr) ==
    SelectSeq(entries, LAMBDA entry :
        entry.date_created >= startDateStr /\ entry.date_created <= endDateStr)

\* the local state of a fetchFormEntries call at its first request
formLoopStart == [page |-> 1, allEntries |-> << >>, done |-> FALSE, responses |-> << >>]

\* one pass of the while loop with a catch block that empties allEntries
formLoopPassDropping(loop, response, startDateStr, endDateStr) ==
    LET seen == [loop EXCEPT !.responses = Append(loop.responses, response)]
    IN  IF ~response.ok
        THEN [seen EXCEPT !.done = TRUE, !.allEntries = << >>]
        ELSE IF Len(response.entries) = 0
        THEN [seen EXCEPT !.done = TRUE]
        ELSE LET all == loop.allEntries
                        \o filterEntries(response.entries, startDateStr, endDateStr)
             IN  IF Len(response.entries) < pageSize
                 THEN [seen EXCEPT !.allEntries = all, !.done = TRUE]
                 ELSE [seen EXCEPT !.allEntries = all, !.page = loop.page + 1]

\* one pass of the while loop of fetchFormEntries, on the response to its request:
\* a failed request is caught and ends the loop, an empty page ends it, a short page
\* ends it after its entries are pushed, a full page leads to the next request
formLoopPass(loop, response, startDateStr, endDateStr) ==
    LET seen == [loop EXCEPT !.responses = Append(loop.responses, response)]
    IN  IF ~response.ok
        THEN [seen EXCEPT !.done = TRUE]
        ELSE IF Len(response.entries) = 0
        THEN [seen EXCEPT !.done = TRUE]
        ELSE LET all == loop.allEntries
                        \o filterEntries(response.entries, startDateStr, endDateStr)
             IN  IF Len(response.entries) < pageSize
                 THEN [seen EXCEPT !.allEntries = all, !.done = TRUE]
                 ELSE [seen EXCEPT !.allEntries = all, !.page = loop.page + 1]

\* ---- the pagination loop of fetchDateRangeChunk, pass by pass ---------------
\* what a page of the upstream can carry
PageData == { << >>, << RawE1 >>, << RawE2, RawE3 >> }
\* the answers to a page request: the request fails, or a page arrives with or
\* without a rel="next" link
ChunkResponse ==
    { [ok |-> FALSE, next |-> FALSE, data |-> << >>] }
    \cup { [ok |-> TRUE, next |-> n, data |-> d] : n \in BOOLEAN, d \in PageData }
\* a response that ends the loop: a failed request, no rel="next" link, an empty page
IsLastPage(response) == ~response.ok \/ ~response.next \/ Len(response.data) = 0
\* the upstream has at most MaxPages pages with a successor
ChunkResponseAt(pageNum) ==
    { r \in ChunkResponse : pageNum >= MaxPages => IsLastPage(r) }
\* the windows the loop is run for
PagedWindows == { << 1, MaxDay - 1 >>, << 0, MaxDay >> }

\* the local state of a fetchDateRangeChunk call at its first request
chunkLoopStart(s, e) ==
    [startDate |-> s, endDate |-> e, allEvents |-> << >>, pageNum |-> 1,
     currentUrl |-> 1, result |-> << >>, last |-> << >>]

\* one pass of the while loop that goes on after an empty page
chunkLoopPassNoEmptyBreak(loop, response) ==
    LET seen == [loop EXCEPT !.last = << response >>]
    IN  IF ~response.ok
        THEN [seen EXCEPT !.result = << << >> >>]
        ELSE LET all == loop.allEvents
                        \o filterPage(response.data, loop.startDate, loop.endDate)
             IN  IF response.next
                 THEN [seen EXCEPT !.allEvents = all,
                                   !.pageNum = IF loop.pageNum < MaxPages
                                               THEN loop.pageNum + 1 ELSE loop.pageNum,
                                   !.currentUrl = IF loop.pageNum < MaxPages
                                                  THEN loop.pageNum + 1 ELSE loop.pageNum]
                 ELSE [seen EXCEPT !.allEvents = all, !.currentUrl = 0,
                                   !.result = << all >>]

\* one pass of the while loop of fetchDateRangeChunk, on the answer to its request:
\* currentUrl is the number of the page to ask for, 0 for null
chunkLoopPass(loop, response) ==
    LET seen == [loop EXCEPT !.last = << response >>]
    IN  IF ~response.ok
        THEN [seen EXCEPT !.result = << << >> >>]
        ELSE LET all == loop.allEvents
                        \o filterPage(response.data, loop.startDate, loop.endDate)
                 nextUrl == IF response.next THEN loop.pageNum + 1 ELSE 0
                 nextNum == IF response.next THEN loop.pageNum + 1 ELSE loop.pageNum
             IN  IF Len(response.data) = 0 \/ nextUrl = 0
                 THEN [seen EXCEPT !.allEvents = all, !.pageNum = nextNum,
                                   !.currentUrl = nextUrl, !.result = << all >>]
                 ELSE [seen EXCEPT !.allEvents = all, !.pageNum = nextNum,
                                   !.currentUrl = nextUrl]

\* the data structure fetchGravityFormsData builds of the entry lists
gravityData(startDateStr, endDateStr, entriesOf) ==
    [dateRangeStart |-> startDateStr, dateRangeEnd |-> endDateStr,
     total |-> [f \in FORMS |-> Len(entriesOf[f])]]

\* ---- state --------------------------------------------------------------
VARIABLES
    chunkDir,       \* the chunk directory of the source: file name -> chunk data
    oldCache,       \* the legacy cache file: << >> when absent, << events >> when present
    backupFile,     \* the '.backup' file, likewise
    dateRanges,     \* the windows the save loop of the migration has still to handle
    pc,             \* "idle", "fetching" inside the loop of fetchMissingChunks, "migrating"
                    \* inside the save loop of the migration, "loaded" after a read
    startDate,      \* arguments of the fetchMissingChunks run in progress (NoDate when
    endDate,        \* none is)
    missingRanges,  \* its missingRanges
    i,              \* its loop index: the fetches issued and chunks saved by the run so far
    repeated,       \* the run in progress directly follows a run with the same arguments
    lastFetch,      \* << >>, or the last fetchDateRangeChunk call since the run was started
    loaded,         \* << >>, or the last loadChunksInDateRange call and its result
    plan,           \* << >>, or a getDateRanges call and its result (planner alone)
    report,         \* << >>, or the event list processed and the two aggregations of it
    gravity,        \* << >>, or the fetchGravityFormsData call in progress
    paging,         \* the two pagination loops run on their own: for each, << >> or
                    \* the call in progress
    weekly          \* << >>, or the runWeeklyReport process

vars == << chunkDir, oldCache, backupFile, dateRanges, pc, startDate, endDate, missingRanges, i, repeated, lastFetch, loaded, plan, report,
          gravity, paging, weekly >>

\* the variables of the chunk cache, the planner and the aggregators
cacheVars == << chunkDir, oldCache, backupFile, dateRanges, pc, startDate, endDate,
               missingRanges, i, repeated, lastFetch, loaded, plan, report >>

EmptyDir == [f \in {} |-> 0]

Init ==
    /\ chunkDir = EmptyDir
    /\ oldCache \in {<< >>} \cup { << f >> : f \in LegacyFiles }
    /\ backupFile = << >>
    /\ dateRanges = << >>
    /\ pc = "idle"
    /\ startDate = NoDate
    /\ endDate = NoDate
    /\ missingRanges = << >>
    /\ i = 0
    /\ repeated = FALSE
    /\ lastFetch = << >>
    /\ loaded = << >>
    /\ plan = << >>
    /\ report = << >>
    /\ gravity = << >>
    /\ paging = [chunk |-> << >>, form |-> << >>]
    /\ weekly = << >>

\* ---- fetchMissingChunks -------------------------------------------------
\* the gap detection at the head of fetchMissingChunks
planMissing(dir, s, e) ==
    LET allRanges == getDateRanges(parseDate(s), parseDate(e), CHUNK_DAYS)
        existingChunks == loadExistingChunks(dir)
        existingRanges == existingRangesOf(existingChunks)
    IN  missingRangesOf(allRanges, existingRanges)

\* the call, up to the loop (or up to the early return when nothing is missing)
StartRun(s, e) ==
    /\ pc = "idle"
    /\ missingRanges' = planMissing(chunkDir, s, e)
    /\ pc' = "fetching"
    /\ startDate' = s
    /\ endDate' = e
    /\ i' = 0
    /\ repeated' = FALSE
    /\ lastFetch' = << >>
    /\ UNCHANGED << chunkDir, oldCache, backupFile, dateRanges, loaded, plan, report,
                    gravity, paging, weekly >>

\* the if/else with nothing saved for an empty result
persistOnlyNonEmpty(dir, range, events) ==
    IF Len(events) > 0
    THEN saveChunk(dir, range.start, range.end, events)
    ELSE dir

\* the if/else with the empty branch saving what it was given under the window's start
persistEmptyMisnamed(dir, range, events) ==
    IF Len(events) > 0
    THEN saveChunk(dir, range.start, range.end, events)
    ELSE saveChunk(dir, range.start, range.start, << >>)

\* the if/else after the fetch of one window
persistFetched(dir, range, events) ==
    IF Len(events) > 0
    THEN saveChunk(dir, range.start, range.end, events)
    ELSE saveChunk(dir, range.start, range.end, << >>)

\* one iteration of the loop: fetch the window, save its chunk
FetchWindow(pages) ==
    /\ pc = "fetching"
    /\ i < Len(missingRanges)
    /\ LET range == missingRanges[i + 1]
           result == fetchPagesLoop(pages, 1, << >>, range.start, range.end)
           events == fetchDateRangeChunk(pages, range.start, range.end)
       IN  /\ chunkDir' = persistFetched(chunkDir, range, events)
           /\ lastFetch' = << [start |-> range.start, end |-> range.end,
                               threw |-> result.threw, events |-> events] >>
    /\ i' = i + 1
    /\ UNCHANGED << oldCache, backupFile, dateRanges, pc, startDate, endDate, missingRanges, repeated,
                    loaded, plan, report,
                    gravity, paging, weekly >>

\* fetchMissingChunks returns: nothing was missing, or the loop is over
FinishRun ==
    /\ pc = "fetching"
    /\ i = Len(missingRanges)
    /\ pc' = "idle"
    /\ startDate' = NoDate
    /\ endDate' = NoDate
    /\ missingRanges' = << >>
    /\ i' = 0
    /\ repeated' = FALSE
    /\ lastFetch' = << >>
    /\ UNCHANGED << chunkDir, oldCache, backupFile, dateRanges, loaded, plan, report,
                    gravity, paging, weekly >>

\* fetchMissingChunks returns and is called again at once with the same arguments
RunAgain ==
    /\ pc = "fetching"
    /\ i = Len(missingRanges)
    /\ ~repeated
    /\ missingRanges' = planMissing(chunkDir, startDate, endDate)
    /\ i' = 0
    /\ repeated' = TRUE
    /\ UNCHANGED << chunkDir, oldCache, backupFile, dateRanges, pc, startDate, endDate, lastFetch, loaded,
                    plan, report,
                    gravity, paging, weekly >>

\* ---- loadChunksInDateRange ----------------------------------------------
\* file names compare as strings: by start date, then by end date
nameBefore(f, g) == f[1] < g[1] \/ (f[1] = g[1] /\ f[2] <= g[2])

RECURSIVE sortedNames(_)
sortedNames(names) ==
    IF names = {} THEN << >>
    ELSE LET first == CHOOSE f \in names : \A g \in names : nameBefore(f, g)
         IN  << first >> \o sortedNames(names \ {first})

reversed(list) == [j \in 1..Len(list) |-> list[Len(list) + 1 - j]]

\* readdirSync: the files of the directory, in an order the file system chooses. The
\* orders tried are the ascending and the descending one.
Listings(names) == { sortedNames(names), reversed(sortedNames(names)) }

Read(s, e) ==
    /\ pc = "idle"
    /\ \E files \in Listings(DOMAIN chunkDir) :
          loaded' = << [startDate |-> s, endDate |-> e,
                        events |-> loadChunksInDateRange(chunkDir, files, s, e)] >>
    /\ pc' = "loaded"
    /\ UNCHANGED << chunkDir, oldCache, backupFile, dateRanges, startDate, endDate, missingRanges, i,
                    repeated, lastFetch, plan, report,
                    gravity, paging, weekly >>

\* the caller of the reader has its report and exits
ReportDone ==
    /\ pc = "loaded"
    /\ pc' = "idle"
    /\ loaded' = << >>
    /\ UNCHANGED << chunkDir, oldCache, backupFile, dateRanges, startDate, endDate, missingRanges,
                    i, repeated, lastFetch, plan, report,
                    gravity, paging, weekly >>

\* ---- migratePaymentErrorCache -------------------------------------------
\* the legacy file is absent: the migration returns at once
MigrateNothing ==
    /\ pc = "idle"
    /\ oldCache = << >>
    /\ UNCHANGED vars

\* the call, up to the save loop: load the legacy file, extract, plan the windows
Migrate ==
    /\ pc = "idle"
    /\ oldCache # << >>
    /\ LET events == oldCache[1]
           minimal == extractAll(events)
       IN  \* formatDate(minDate) throws on an empty legacy file, before anything is written
           /\ Len(events) > 0
           /\ dateRanges' = getDateRanges(minDateOf(minimal), maxDateOf(minimal),
                                          MIGRATE_CHUNK_DAYS)
    /\ pc' = "migrating"
    /\ UNCHANGED << chunkDir, oldCache, backupFile, startDate, endDate, missingRanges, i,
                    repeated, lastFetch, loaded, plan, report,
                    gravity, paging, weekly >>

\* one iteration of the save loop
MigrateChunk ==
    /\ pc = "migrating"
    /\ dateRanges # << >>
    /\ chunkDir' = saveMigratedChunk(chunkDir, Head(dateRanges), extractAll(oldCache[1]))
    /\ dateRanges' = Tail(dateRanges)
    /\ UNCHANGED << oldCache, backupFile, pc, startDate, endDate, missingRanges, i,
                    repeated, lastFetch, loaded, plan, report,
                    gravity, paging, weekly >>

\* a write of the save loop throws: the migration dies with the legacy file in place
MigrateAbort ==
    /\ pc = "migrating"
    /\ dateRanges # << >>
    /\ dateRanges' = << >>
    /\ pc' = "idle"
    /\ UNCHANGED << chunkDir, oldCache, backupFile, startDate, endDate, missingRanges, i,
                    repeated, lastFetch, loaded, plan, report,
                    gravity, paging, weekly >>

\* after the save loop: the legacy file is renamed to its backup name
MigrateRename ==
    /\ pc = "migrating"
    /\ dateRanges = << >>
    /\ backupFile' = oldCache
    /\ oldCache' = << >>
    /\ pc' = "idle"
    /\ UNCHANGED << chunkDir, dateRanges, startDate, endDate, missingRanges, i,
                    repeated, lastFetch, loaded, plan, report,
                    gravity, paging, weekly >>

Next ==
    \/ \E r \in RequestedRanges : StartRun(r[1], r[2])
    \/ \E pages \in Responses : FetchWindow(pages)
    \/ FinishRun
    \/ RunAgain
    \/ \E r \in RequestedRanges : Read(r[1], r[2])
    \/ ReportDone
    \/ MigrateNothing
    \/ Migrate
    \/ MigrateChunk
    \/ MigrateAbort
    \/ MigrateRename

Spec == Init /\ [][Next]_vars

\* ---- the planner alone --------------------------------------------------
PlanInit ==
    /\ Init
    /\ oldCache = << >>

\* a call of getDateRanges
Plan(s, e, chunkDays) ==
    /\ plan = << >>
    /\ plan' = << [startDate |-> s, endDate |-> e, chunkDays |-> chunkDays,
                   ranges |-> getDateRanges(s, e, chunkDays)] >>
    /\ UNCHANGED << chunkDir, oldCache, backupFile, dateRanges, pc, startDate, endDate, missingRanges,
                    i, repeated, lastFetch, loaded, report,
                    gravity, paging, weekly >>

\* the caller has used the windows
PlanUsed ==
    /\ plan # << >>
    /\ plan' = << >>
    /\ UNCHANGED << chunkDir, oldCache, backupFile, dateRanges, pc, startDate, endDate, missingRanges,
                    i, repeated, lastFetch, loaded, report,
                    gravity, paging, weekly >>

PlanNext ==
    \/ /\ plan = << >>
       /\ \E s, e \in Times, chunkDays \in 1..MaxChunkDays : Plan(s, e, chunkDays)
    \/ PlanUsed

PlanSpec == PlanInit /\ [][PlanNext]_vars

\* ---- the aggregators alone ----------------------------------------------
\* main of the report generator processes the events it has loaded
Process(events) ==
    /\ report = << >>
    /\ report' = << [events |-> events,
                     errorReasons |-> processPaymentErrors(events),
                     merchants |-> processPaymentSuccess(events)] >>
    /\ UNCHANGED << chunkDir, oldCache, backupFile, dateRanges, pc, startDate, endDate, missingRanges,
                    i, repeated, lastFetch, loaded, plan,
                    gravity, paging, weekly >>

\* the report is written
ReportWritten ==
    /\ report # << >>
    /\ report' = << >>
    /\ UNCHANGED << chunkDir, oldCache, backupFile, dateRanges, pc, startDate, endDate, missingRanges,
                    i, repeated, lastFetch, loaded, plan,
                    gravity, paging, weekly >>

ReportNext ==
    \/ /\ report = << >>
       /\ \E events \in EventLists : Process(events)
    \/ ReportWritten

ReportSpec == PlanInit /\ [][ReportNext]_vars

\* ---- fetchGravityFormsData alone ------------------------------------------
\* the call: the credentials are set, and the first request of every form is issued
GravityCall(s, e) ==
    /\ gravity = << >>
    /\ gravity' = << [startDate |-> s, endDate |-> e,
                      loops |-> [f \in FORMS |-> formLoopStart],
                      data |-> << >>] >>
    /\ UNCHANGED << cacheVars, paging, weekly >>

\* the response to the request a form has in flight arrives: the rest of that pass of
\* its loop runs, up to the next await or to the return of its fetchFormEntries
FormPage(f, response) ==
    /\ gravity # << >>
    /\ ~gravity[1].loops[f].done
    /\ gravity' = << [gravity[1] EXCEPT
                        !.loops[f] = formLoopPass(gravity[1].loops[f], response,
                                                  gravity[1].startDate,
                                                  gravity[1].endDate)] >>
    /\ UNCHANGED << cacheVars, paging, weekly >>

\* Promise.all resolves, and the data is built
GravityAssemble ==
    /\ gravity # << >>
    /\ gravity[1].data = << >>
    /\ \A f \in FORMS : gravity[1].loops[f].done
    /\ gravity' = << [gravity[1] EXCEPT
                        !.data = << gravityData(gravity[1].startDate, gravity[1].endDate,
                                                [f \in FORMS |->
                                                    gravity[1].loops[f].allEntries]) >>] >>
    /\ UNCHANGED << cacheVars, paging, weekly >>

\* the data is returned to the caller
GravityReturn ==
    /\ gravity # << >>
    /\ gravity[1].data # << >>
    /\ gravity' = << >>
    /\ UNCHANGED << cacheVars, paging, weekly >>

GravityNext ==
    \/ /\ gravity = << >>
       /\ \E r \in GravityRanges : GravityCall(r[1], r[2])
    \/ \E f \in FORMS :
          /\ gravity # << >>
          /\ ~gravity[1].loops[f].done
          /\ \E response \in FormResponsesAt(gravity[1].loops[f].page) :
                FormPage(f, response)
    \/ GravityAssemble
    \/ GravityReturn

GravitySpec == PlanInit /\ [][GravityNext]_vars

\* ---- the two pagination loops alone ---------------------------------------
ChunkCall(s, e) ==
    /\ paging.chunk = << >>
    /\ paging' = [paging EXCEPT !.chunk = << chunkLoopStart(s, e) >>]
    /\ UNCHANGED << cacheVars, gravity, weekly >>

\* the answer to the page request in flight arrives
ChunkPage(response) ==
    /\ paging.chunk # << >>
    /\ paging.chunk[1].result = << >>
    /\ paging' = [paging EXCEPT !.chunk = << chunkLoopPass(paging.chunk[1], response) >>]
    /\ UNCHANGED << cacheVars, gravity, weekly >>

\* the caller has the result
ChunkReturn ==
    /\ paging.chunk # << >>
    /\ paging.chunk[1].result # << >>
    /\ paging' = [paging EXCEPT !.chunk = << >>]
    /\ UNCHANGED << cacheVars, gravity, weekly >>

FormCall(s, e) ==
    /\ paging.form = << >>
    /\ paging' = [paging EXCEPT !.form = << [startDate |-> s, endDate |-> e,
                                             loop |-> formLoopStart] >>]
    /\ UNCHANGED << cacheVars, gravity, weekly >>

\* the answer to the page request in flight arrives
FormLoopPage(response) ==
    /\ paging.form # << >>
    /\ ~paging.form[1].loop.done
    /\ paging' = [paging EXCEPT
                     !.form = << [paging.form[1] EXCEPT
                                    !.loop = formLoopPass(paging.form[1].loop, response,
                                                          paging.form[1].startDate,
                                                          paging.form[1].endDate)] >>]
    /\ UNCHANGED << cacheVars, gravity, weekly >>

\* the caller has the entries
FormReturn ==
    /\ paging.form # << >>
    /\ paging.form[1].loop.done
    /\ paging' = [paging EXCEPT !.form = << >>]
    /\ UNCHANGED << cacheVars, gravity, weekly >>

ChunkStep ==
    /\ paging.chunk # << >>
    /\ paging.chunk[1].result = << >>
    /\ \E response \in ChunkResponseAt(paging.chunk[1].pageNum) : ChunkPage(response)

FormStep ==
    /\ paging.form # << >>
    /\ ~paging.form[1].loop.done
    /\ \E response \in FormResponsesAt(paging.form[1].loop.page) : FormLoopPage(response)

PagingNext ==
    \/ /\ paging.chunk = << >>
       /\ \E r \in PagedWindows : ChunkCall(r[1], r[2])
    \/ ChunkStep
    \/ ChunkReturn
    \/ /\ paging.form = << >>
       /\ \E r \in PagedWindows : FormCall(r[1], r[2])
    \/ FormStep
    \/ FormReturn

PagingSpec == PlanInit /\ [][PagingNext]_vars

\* every page request is answered in the end, by a page or by an error
FairPagingSpec == PagingSpec /\ WF_vars(ChunkStep) /\ WF_vars(FormStep)

\* ---- runWeeklyReport --------------------------------------------------------
\* the credentials of the environment
Credentials == {"SENTRY_TOKEN", "GRAVITY_FORMS_URL", "GRAVITY_FORMS_KEY",
                "GRAVITY_FORMS_SECRET"}
GravityCredentials == Credentials \ {"SENTRY_TOKEN"}
\* the environments run in: every credential set, or one of them missing
Environments == { {} } \cup { {c} : c \in Credentials }
\* the command line options
WeeklyOptions == [skipEmail : BOOLEAN, skipSentry : BOOLEAN, skipGravityForms : BOOLEAN]
Issues == {"payment_error", "payment_success"}

\* the report period: days back from today, within one chunk window
reportDays == CHUNK_DAYS - 1
reportEnd == MaxDay
reportStart == reportEnd - reportDays

\* a chunk directory as the run finds it, and its files that are not valid chunk data
DiskAbsent == [dir |-> EmptyDir, invalid |-> {}]
DiskEmptyChunk ==
    [dir |-> saveChunk(EmptyDir, reportStart, reportEnd, << >>), invalid |-> {}]
DiskChunk ==
    [dir |-> saveChunk(EmptyDir, reportStart, reportEnd,
                       << extractMinimalEventData(RawE4) >>),
     invalid |-> {}]
DiskInvalidChunk ==
    [dir |-> saveChunk(EmptyDir, reportStart, reportEnd, << >>),
     invalid |-> { getChunkFilename(reportStart, reportEnd) }]
DiskInvalidWider ==
    [dir |-> saveChunk(EmptyDir, 0, reportEnd, << >>),
     invalid |-> { getChunkFilename(0, reportEnd) }]
DiskInvalidEarlier ==
    [dir |-> saveChunk(EmptyDir, 0, 0, << >>), invalid |-> { getChunkFilename(0, 0) }]
WeeklyDisks ==
    { [payment_error |-> e, payment_success |-> x] :
        e \in { DiskAbsent, DiskEmptyChunk, DiskChunk, DiskInvalidChunk, DiskInvalidWider,
                DiskInvalidEarlier },
        x \in { DiskAbsent, DiskChunk, DiskInvalidChunk } }

\* the loop of fetchMissingChunks: every missing window fetched and saved; the
\* upstream answers the requests of each window with the same pages
RECURSIVE fetchMissingLoop(_, _, _)
fetchMissingLoop(disk, missing, pages) ==
    IF missing = << >> THEN disk
    ELSE LET range == Head(missing)
             events == fetchDateRangeChunk(pages, range.start, range.end)
         IN  fetchMissingLoop(
                 [dir |-> persistFetched(disk.dir, range, events),
                  invalid |-> disk.invalid \ { getChunkFilename(range.start, range.end) }],
                 Tail(missing), pages)

\* JSON.parse of the reader throws on an overlapping file that is not valid chunk data,
\* taken for a reader that skips such a file
readerSkips(disk, rangeStart, rangeEnd) == FALSE

\* JSON.parse of the reader throws on an overlapping file that is not valid chunk data
readerThrows(disk, rangeStart, rangeEnd) ==
    \E file \in disk.invalid : chunkOverlaps(file[1], file[2], rangeStart, rangeEnd)

\* the reader over the valid files
readChunks(disk, files, rangeStart, rangeEnd) ==
    loadChunksInDateRange(disk.dir,
                          SelectSeq(files, LAMBDA file : file \notin disk.invalid),
                          rangeStart, rangeEnd)

\* the email stage entered whenever the email is not skipped
attemptsEmailWithoutPdf(skipEmail, pdfFile) == ~skipEmail

\* the condition of the email stage
attemptsEmail(skipEmail, pdfFile) == ~skipEmail /\ pdfFile # << >>

\* generatePDF resolves with the name of the PDF file, or with null
generatePDFResults == { << "pdf" >>, << >> }
\* sendReportEmail resolves, or rejects
sendReportEmailResults == {"sent", "failed"}

\* the process is started: requiring fetch_payment_data exits it at once when
\* SENTRY_TOKEN is missing
weeklyProcess(missing, options, disks, applications) ==
    [missing |-> missing, options |-> options,
     startDateStr |-> reportStart, endDateStr |-> reportEnd,
     disks |-> disks, applications |-> applications,
     pc |-> IF "SENTRY_TOKEN" \in missing THEN "exited" ELSE "gravity",
     exitCode |-> IF "SENTRY_TOKEN" \in missing THEN 1 ELSE NoDate,
     requested |-> {}, written |-> {},
     errorEvents |-> << >>, successEvents |-> << >>,
     htmlFile |-> << >>, pdfFile |-> << >>, email |-> "none"]

WeeklyStart(missing, options, disks) ==
    /\ weekly = << >>
    /\ weekly' = << weeklyProcess(missing, options, disks, << >>) >>
    /\ UNCHANGED << cacheVars, gravity, paging >>

\* the process is started again, on the files the last run left
WeeklyAgain(missing, options) ==
    /\ weekly # << >>
    /\ weekly[1].pc = "exited"
    /\ weekly' = << weeklyProcess(missing, options, weekly[1].disks,
                                  weekly[1].applications) >>
    /\ UNCHANGED << cacheVars, gravity, paging >>

\* step 1: the Gravity Forms data, fetched and saved, or loaded when the fetch is
\* skipped; a failure of the fetch is caught
WeeklyGravity(n) ==
    /\ weekly # << >>
    /\ weekly[1].pc = "gravity"
    /\ LET run == weekly[1]
           data == gravityData(run.startDateStr, run.endDateStr,
                               [f \in FORMS |->
                                   filterEntries(FormEntries(0, n), run.startDateStr,
                                                 run.endDateStr)])
       IN  weekly' =
             << IF run.options.skipGravityForms
                THEN [run EXCEPT !.pc = "fetch_error"]
                ELSE IF run.missing \cap GravityCredentials # {}
                THEN [run EXCEPT !.pc = "fetch_error"]
                ELSE [run EXCEPT !.pc = "fetch_error",
                                 !.requested = @ \cup {"gravity_forms"},
                                 !.applications = << data >>,
                                 !.written = @ \cup {"applications_data.json"}] >>
    /\ UNCHANGED << cacheVars, gravity, paging >>

\* step 2: fetchMissingChunks of one of the two issues
WeeklySentry(issue, pages) ==
    /\ weekly # << >>
    /\ weekly[1].pc = (IF issue = "payment_error" THEN "fetch_error" ELSE "fetch_success")
    /\ LET run == weekly[1]
           next == IF issue = "payment_error" THEN "fetch_success" ELSE "load"
           missing == planMissing(run.disks[issue].dir, run.startDateStr, run.endDateStr)
       IN  weekly' =
             << IF run.options.skipSentry \/ missing = << >>
                THEN [run EXCEPT !.pc = next]
                ELSE [run EXCEPT !.pc = next,
                                 !.requested = @ \cup {issue},
                                 !.written = @ \cup {issue},
                                 !.disks[issue] = fetchMissingLoop(@, missing, pages)] >>
    /\ UNCHANGED << cacheVars, gravity, paging >>

\* step 3: the two loadChunksInDateRange calls; an exception of either rejects
\* runWeeklyReport, and the entry point exits with status 1
WeeklyLoad(errorFiles, successFiles) ==
    /\ weekly # << >>
    /\ weekly[1].pc = "load"
    /\ LET run == weekly[1]
           s == run.startDateStr
           e == run.endDateStr
       IN  weekly' =
             << IF \E issue \in Issues : readerThrows(run.disks[issue], s, e)
                THEN [run EXCEPT !.pc = "exited", !.exitCode = 1]
                ELSE [run EXCEPT
                        !.pc = "generate",
                        !.errorEvents = readChunks(run.disks.payment_error, errorFiles, s, e),
                        !.successEvents =
                            readChunks(run.disks.payment_success, successFiles, s, e)] >>
    /\ UNCHANGED << cacheVars, gravity, paging >>

\* step 4: the aggregations, the HTML report and the PDF
WeeklyGenerate(pdfFile) ==
    /\ weekly # << >>
    /\ weekly[1].pc = "generate"
    /\ LET run == weekly[1]
           \* the totals are the sums of the counts of the two aggregations
           html == [totalErrorEvents |-> Len(run.errorEvents),
                    totalSuccessEvents |-> Len(run.successEvents),
                    applicationsData |-> run.applications]
       IN  weekly' = << [run EXCEPT !.pc = "email",
                                    !.htmlFile = << html >>,
                                    !.pdfFile = pdfFile,
                                    !.written = @ \cup {"html"}
                                                  \cup (IF pdfFile # << >> THEN {"pdf"}
                                                        ELSE {})] >>
    /\ UNCHANGED << cacheVars, gravity, paging >>

\* step 5: the email, whose failure is caught; the function returns its two file names
WeeklyEmail(outcome) ==
    /\ weekly # << >>
    /\ weekly[1].pc = "email"
    /\ LET run == weekly[1]
       IN  weekly' =
             << IF attemptsEmail(run.options.skipEmail, run.pdfFile)
                THEN [run EXCEPT !.pc = "returned", !.email = outcome]
                ELSE [run EXCEPT !.pc = "returned"] >>
    /\ UNCHANGED << cacheVars, gravity, paging >>

\* the entry point: process.exit(0) once runWeeklyReport has resolved
WeeklyExit ==
    /\ weekly # << >>
    /\ weekly[1].pc = "returned"
    /\ weekly' = << [weekly[1] EXCEPT !.pc = "exited", !.exitCode = 0] >>
    /\ UNCHANGED << cacheVars, gravity, paging >>

WeeklyNext ==
    \/ /\ weekly = << >>
       /\ \E missing \in Environments, options \in WeeklyOptions, disks \in WeeklyDisks :
             WeeklyStart(missing, options, disks)
    \/ /\ weekly # << >>
       /\ weekly[1].pc = "exited"
       /\ \E missing \in Environments, options \in WeeklyOptions :
             WeeklyAgain(missing, options)
    \/ /\ weekly # << >>
       /\ weekly[1].pc = "gravity"
       /\ \E n \in 0..pageSize : WeeklyGravity(n)
    \/ /\ weekly # << >>
       /\ weekly[1].pc \in {"fetch_error", "fetch_success"}
       /\ \E issue \in Issues :
             \E pages \in Responses : WeeklySentry(issue, pages)
    \/ /\ weekly # << >>
       /\ weekly[1].pc = "load"
       /\ \E errorFiles \in Listings(DOMAIN weekly[1].disks.payment_error.dir),
             successFiles \in Listings(DOMAIN weekly[1].disks.payment_success.dir) :
             WeeklyLoad(errorFiles, successFiles)
    \/ \E pdfFile \in generatePDFResults : WeeklyGenerate(pdfFile)
    \/ \E outcome \in sendReportEmailResults : WeeklyEmail(outcome)
    \/ WeeklyExit

WeeklySpec == PlanInit /\ [][WeeklyNext]_vars

\* ======================================================================
\* Claims
\* ======================================================================
Planned == plan # << >>
PlanRanges == plan[1].ranges
SpanOf(range) == range.end - range.start + 1

\* C3: for every start < end and chunk size d >= 1 the windows of getDateRanges cover
\* every calendar day of [start, end]: the first window starts at start, the last one
\* ends at end, and no day of the range is left out.
C3_CoversWholeRange ==
    (Planned /\ plan[1].startDate < plan[1].endDate) =>
        /\ PlanRanges # << >>
        /\ PlanRanges[1].start = formatDate(plan[1].startDate)
        /\ PlanRanges[Len(PlanRanges)].end = formatDate(plan[1].endDate)
        /\ \A day \in formatDate(plan[1].startDate)..formatDate(plan[1].endDate) :
              \E j \in 1..Len(PlanRanges) :
                  PlanRanges[j].start <= day /\ day <= PlanRanges[j].end

\* C4: the windows of getDateRanges are in chronological order and pairwise disjoint,
\* each window after the first starts the day after the previous one ends, every window
\* but the last spans exactly chunkDays days, and no window spans more than chunkDays
\* days or ends before it starts.
C4_WindowsOrderedContiguous ==
    Planned =>
        /\ \A j \in 1..Len(PlanRanges) :
              /\ PlanRanges[j].start <= PlanRanges[j].end
              /\ SpanOf(PlanRanges[j]) <= plan[1].chunkDays
              /\ j < Len(PlanRanges) => SpanOf(PlanRanges[j]) = plan[1].chunkDays
              /\ j > 1 => PlanRanges[j].start = PlanRanges[j - 1].end + 1
        /\ \A j, k \in 1..Len(PlanRanges) :
              j < k => PlanRanges[j].end < PlanRanges[k].start

\* a plan of several windows whose last window is cut short at the end date
C4_Witness ==
    /\ Planned
    /\ Len(PlanRanges) >= 2
    /\ plan[1].chunkDays >= 2
    /\ SpanOf(PlanRanges[Len(PlanRanges)]) < plan[1].chunkDays

\* C14: for a single-day range (start date equal to end date) getDateRanges produces
\* exactly one window, starting and ending on that day.
C14_SingleDayOneWindow ==
    (Planned /\ plan[1].startDate <= plan[1].endDate
             /\ formatDate(plan[1].startDate) = formatDate(plan[1].endDate)) =>
        PlanRanges = << [start |-> formatDate(plan[1].startDate),
                         end |-> formatDate(plan[1].endDate)] >>

\* the whole days between the two instants when they are a whole number of days apart
\* and the start is the earlier one, 0 otherwise
PlanDayDifference ==
    IF plan[1].endDate > plan[1].startDate
       /\ (plan[1].endDate - plan[1].startDate) % TicksPerDay = 0
    THEN (plan[1].endDate - plan[1].startDate) \div TicksPerDay
    ELSE 0

ExactMultiple ==
    /\ Planned
    /\ PlanDayDifference > 0
    /\ PlanDayDifference % plan[1].chunkDays = 0

CalendarDate(day) ==
    IF day <= 21
    THEN [year |-> 2025, month |-> 9, day |-> 9 + day]
    ELSE [year |-> 2025, month |-> 10, day |-> day - 21]

Sep(d) == [year |-> 2025, month |-> 9, day |-> d]
Oct(d) == [year |-> 2025, month |-> 10, day |-> d]

\* the day number of 2025-10-09 and the chunk size of the scenario
ScenarioPlanned ==
    /\ Planned
    /\ plan[1].startDate = parseDate(0)
    /\ CalendarDate(formatDate(plan[1].endDate)) = Oct(9)
    /\ plan[1].endDate = parseDate(formatDate(plan[1].endDate))
    /\ plan[1].chunkDays = 7

\* C17: getDateRanges with start 2025-09-09, end 2025-10-09 and chunkDays 7 yields the
\* five windows 09-09..09-15, 09-16..09-22, 09-23..09-29, 09-30..10-06, 10-07..10-09 in
\* that order, the last one cut to three days.
C17_ScenarioFiveWindows ==
    ScenarioPlanned =>
        /\ [j \in 1..Len(PlanRanges) |->
               << CalendarDate(PlanRanges[j].start), CalendarDate(PlanRanges[j].end) >>]
             = << << Sep(9), Sep(15) >>, << Sep(16), Sep(22) >>, << Sep(23), Sep(29) >>,
                  << Sep(30), Oct(6) >>, << Oct(7), Oct(9) >> >>
        /\ SpanOf(PlanRanges[Len(PlanRanges)]) = 3

\* the planner was called on the scenario and returned windows
C17_Witness ==
    /\ ScenarioPlanned
    /\ PlanRanges # << >>

\* ---- the cache ----------------------------------------------------------
IsFetchStep == i' = i + 1
FetchedFile(fetch) == getChunkFilename(fetch.start, fetch.end)
RunPlan == getDateRanges(parseDate(startDate), parseDate(endDate), CHUNK_DAYS)
Elements(list) == { list[j] : j \in 1..Len(list) }
Count(x, list) == Cardinality({ j \in 1..Len(list) : list[j] = x })

\* C1: after any sequence of fetch-and-cache runs over possibly overlapping ranges,
\* every upstream event appears at most once in the list the reader returns.
C1_ReaderDeduplicates ==
    (pc = "loaded" /\ oldCache = << >> /\ backupFile = << >>) =>
        \A a, b \in 1..Len(loaded[1].events) :
            a # b => loaded[1].events[a].eventId # loaded[1].events[b].eventId

\* C2: when the upstream fetch of a missing window fails, no chunk file is written for
\* that window (so that the next run finds it missing and fetches it again).
C2_FailedWindowNotSaved ==
    (lastFetch # << >> /\ lastFetch[1].threw) =>
        FetchedFile(lastFetch[1]) \notin DOMAIN chunkDir

\* C5: a run that directly follows a run with the same arguments issues no upstream
\* fetch and saves no chunk, whatever the fetches of the first run came to.
C5_SecondRunFetchesNothing ==
    repeated => (missingRanges = << >> /\ i = 0)

\* the second of two runs over a range whose last window failed upstream in the first
C5_Witness ==
    /\ repeated
    /\ RunPlan # << >>
    /\ lastFetch # << >>
    /\ lastFetch[1].threw

\* C6: the gap detector returns exactly the planned windows, in planned order, whose
\* (start, end) pair is the pair of no chunk file: nothing when every pair is on disk,
\* an overlapping chunk of other bounds does not count, and one more chunk on disk
\* never adds a window.
C6_GapDetectorExactPairs ==
    (pc = "fetching" /\ i = 0) =>
        LET onDisk == DOMAIN chunkDir
            absent == { j \in 1..Len(RunPlan) :
                          << RunPlan[j].start, RunPlan[j].end >> \notin onDisk }
        IN  /\ Len(missingRanges) = Cardinality(absent)
            /\ \A j \in absent : RunPlan[j] \in Elements(missingRanges)
            /\ \A a \in 1..Len(missingRanges) :
                  \E j \in absent : missingRanges[a] = RunPlan[j]
            /\ \A a, b \in 1..Len(missingRanges) :
                  a < b => missingRanges[a].start < missingRanges[b].start
            /\ (absent = {}) => missingRanges = << >>
            /\ \A s \in Days, e \in Days :
                  Elements(missingRangesOf(RunPlan, existingRangesOf(loadExistingChunks(chunkDir))
                                                       \cup {<< s, e >>}))
                      \subseteq Elements(missingRanges)

\* a planned window reported missing although a chunk of other bounds overlaps it, in a
\* plan of which another window is on disk
C6_Witness ==
    /\ pc = "fetching"
    /\ i = 0
    /\ Len(missingRanges) < Len(RunPlan)
    /\ \E a \in 1..Len(missingRanges) : \E f \in DOMAIN chunkDir :
          /\ f # << missingRanges[a].start, missingRanges[a].end >>
          /\ f[2] >= missingRanges[a].start
          /\ f[1] <= missingRanges[a].end

\* C7: once a chunk file exists, no later operation (fetch run, read, migration)
\* rewrites it: its stored event list is the same in every later state.
C7_ChunksNeverRewritten ==
    [][\A f \in DOMAIN chunkDir :
          f \in DOMAIN chunkDir' /\ chunkDir'[f].events = chunkDir[f].events]_vars

\* C8 as stated: once a persisted chunk covers a day, no later run issues an upstream
\* fetch whose window includes that day.
C8_CoveredDayNeverFetched ==
    [][IsFetchStep =>
          \A f \in DOMAIN chunkDir :
              f[2] < lastFetch'[1].start \/ f[1] > lastFetch'[1].end]_vars

\* C8 as amended: once a chunk file with exactly the bounds of a window exists, no
\* later run issues an upstream fetch for that window; a chunk that only overlaps the
\* window does not prevent the fetch.
C8_ExactWindowNeverRefetched ==
    [][IsFetchStep => FetchedFile(lastFetch'[1]) \notin DOMAIN chunkDir]_vars

\* a window was fetched while a chunk of other bounds covering some of its days is on disk
C8_Witness ==
    /\ lastFetch # << >>
    /\ \E f \in DOMAIN chunkDir :
          /\ f # FetchedFile(lastFetch[1])
          /\ f[2] >= lastFetch[1].start
          /\ f[1] <= lastFetch[1].end

\* C9: when the upstream fetch of a missing window succeeds with no event in range, a
\* chunk with an empty event list is saved for the window, and a window with such a
\* chunk is not fetched again.
C9_EmptyChunkSaved ==
    /\ [](  (lastFetch # << >> /\ ~lastFetch[1].threw /\ lastFetch[1].events = << >>) =>
              /\ FetchedFile(lastFetch[1]) \in DOMAIN chunkDir
              /\ chunkDir[FetchedFile(lastFetch[1])].events = << >>
              /\ chunkDir[FetchedFile(lastFetch[1])].totalEvents = 0 )
    /\ [][\A f \in DOMAIN chunkDir :
            chunkDir[f].events = << >> =>
                ~(IsFetchStep /\ FetchedFile(lastFetch'[1]) = f)]_vars

\* the run is repeated after a fetch that succeeded with no event in range
C9_Witness ==
    /\ repeated
    /\ lastFetch # << >>
    /\ ~lastFetch[1].threw
    /\ lastFetch[1].events = << >>
    /\ FetchedFile(lastFetch[1]) \in DOMAIN chunkDir

\* how often the event is stored in the given files of the directory
RECURSIVE CountInFiles(_, _)
CountInFiles(ev, files) ==
    IF files = {} THEN 0
    ELSE LET f == CHOOSE x \in files : TRUE
         IN  Count(ev, chunkDir[f].events) + CountInFiles(ev, files \ {f})

StoredEvents == UNION { Elements(chunkDir[f].events) : f \in DOMAIN chunkDir }

LoadedOverlapping ==
    { f \in DOMAIN chunkDir : f[2] >= loaded[1].startDate /\ f[1] <= loaded[1].endDate }

\* the last read asked for exactly the window of a chunk that no other chunk overlaps
ReadExactWindow ==
    /\ pc = "loaded"
    /\ LoadedOverlapping = { << loaded[1].startDate, loaded[1].endDate >> }

\* C11: a chunk saved by saveChunk for a window holds the event list it was given, and a
\* read of exactly that window, with no other chunk overlapping it, returns that list in
\* the same order.
C11_RoundTrip ==
    /\ [](ReadExactWindow =>
            loaded[1].events =
                chunkDir[<< loaded[1].startDate, loaded[1].endDate >>].events)
    /\ [][IsFetchStep =>
            /\ chunkDir'[FetchedFile(lastFetch'[1])].events = lastFetch'[1].events
            /\ chunkDir'[FetchedFile(lastFetch'[1])].dateRangeStart = lastFetch'[1].start
            /\ chunkDir'[FetchedFile(lastFetch'[1])].dateRangeEnd = lastFetch'[1].end]_vars

\* a chunk of several events was read back through its exact window
C11_Witness ==
    /\ ReadExactWindow
    /\ Len(loaded[1].events) >= 2

\* C12: the list the reader returns is the concatenation of the overlapping chunks'
\* filtered event lists in ascending order of chunk start date, whatever the order of
\* the directory listing.
C12_ReaderOrderAscending ==
    (pc = "loaded" /\ \A f, g \in LoadedOverlapping : f[1] = g[1] => f = g) =>
        loaded[1].events =
            loadChunksInDateRange(chunkDir, sortedNames(DOMAIN chunkDir),
                                  loaded[1].startDate, loaded[1].endDate)

\* C13: every event stored in a chunk written by the fetch loop is dated within the
\* window of the chunk; upstream events dated outside the window, or carrying no date,
\* are not stored in it.
C13_StoredEventsInWindow ==
    [][IsFetchStep =>
          \A ev \in Elements(chunkDir'[FetchedFile(lastFetch'[1])].events) :
              /\ timestampDate(ev.timestamp) >= lastFetch'[1].start
              /\ timestampDate(ev.timestamp) <= lastFetch'[1].end
              /\ ev.eventId # Or(RawE3.id, RawE3.eventID)]_vars

\* a fetch kept one event of the window while the upstream also served an event dated
\* outside the window and an undated one
C13_Witness ==
    /\ lastFetch # << >>
    /\ ~lastFetch[1].threw
    /\ Len(lastFetch[1].events) = 1
    /\ Len(chunkDir[FetchedFile(lastFetch[1])].events) = 1

\* a run of fetchMissingChunks over a range whose start is not before its end
RunOverEmptyRange ==
    /\ pc = "fetching"
    /\ startDate >= endDate

\* C15: for every start >= end (start equal to end included) getDateRanges produces the
\* empty sequence, and fetchMissingChunks over such a range issues no fetch and writes
\* no chunk.
C15_EmptyRangeNoFetch ==
    /\ [](RunOverEmptyRange =>
            /\ \A chunkDays \in 1..MaxChunkDays :
                  getDateRanges(parseDate(startDate), parseDate(endDate), chunkDays) = << >>
            /\ missingRanges = << >>
            /\ i = 0
            /\ lastFetch = << >>)
    /\ [][RunOverEmptyRange => (~IsFetchStep /\ chunkDir' = chunkDir)]_vars

\* a run over a single day, with chunks of other runs on disk
C15_Witness ==
    /\ RunOverEmptyRange
    /\ startDate = endDate
    /\ chunkDir # EmptyDir

\* the upstream events, and the one a stored event was extracted from
RawEvents == { RawE1, RawE2, RawE3, RawE4 }
RawOf(eventId) ==
    CHOOSE raw \in RawEvents : (IF raw.id # None THEN raw.id ELSE raw.eventID) = eventId

\* C20: the userId of an extracted event is the user's id when present, otherwise the
\* email when present, otherwise the ip_address when present, otherwise 'anonymous'; a
\* user with only the ip_address '1.2.3.4' resolves to '1.2.3.4', and one with none of
\* the three fields to 'anonymous'.
C20_UserIdFallback ==
    \A ev \in StoredEvents :
        LET user == RawOf(ev.eventId).user
        IN  /\ user.id # None => ev.userId = user.id
            /\ (user.id = None /\ user.email # None) => ev.userId = user.email
            /\ (user.id = None /\ user.email = None /\ user.ip_address # None) =>
                   ev.userId = user.ip_address
            /\ (user.id = None /\ user.email = None /\ user.ip_address = None) =>
                   ev.userId = "anonymous"
            /\ user = RawE2.user => ev.userId = "1.2.3.4"

\* events of all four kinds of user are stored
C20_Witness ==
    { ev.userId : ev \in StoredEvents } = { "u1", "a@b.c", "1.2.3.4", "anonymous" }

\* ---- the aggregators ----------------------------------------------------
Processed == report # << >>

\* the index at which the key is first seen in the list of keys
FirstSeen(key, keys) == CHOOSE a \in 1..Len(keys) : keys[a] = key /\ \A b \in 1..(a - 1) : keys[b] # key

\* the results are one group per distinct key, with the count of its events and the
\* number of distinct users among them, descending by count, equal counts in the order
\* in which the keys are first seen
GroupedFirstSeen(results, keys, users) ==
    /\ Len(results) = Cardinality(Elements(keys))
    /\ { results[j].key : j \in 1..Len(results) } = Elements(keys)
    /\ \A j \in 1..Len(results) :
          /\ results[j].count = Count(results[j].key, keys)
          /\ results[j].uniqueUsers =
                Cardinality({ users[a] : a \in { b \in 1..Len(keys) : keys[b] = results[j].key } })
    /\ \A a, b \in 1..Len(results) :
          a < b =>
              \/ results[a].count > results[b].count
              \/ /\ results[a].count = results[b].count
                 /\ FirstSeen(results[a].key, keys) < FirstSeen(results[b].key, keys)

ReportUsers == [j \in 1..Len(report[1].events) |-> report[1].events[j].userId]

\* C18: processPaymentErrors and processPaymentSuccess return one group per distinct key
\* with its count and its number of distinct users, sorted by count descending, groups
\* of equal count in the order their key is first seen in the input, for every key
\* (digit-only keys such as numeric merchant ids included).
C18_GroupsSortedFirstSeen ==
    Processed =>
        /\ GroupedFirstSeen(
              [j \in 1..Len(report[1].errorReasons) |->
                  [key |-> report[1].errorReasons[j].reason,
                   count |-> report[1].errorReasons[j].count,
                   uniqueUsers |-> report[1].errorReasons[j].uniqueUsers]],
              [j \in 1..Len(report[1].events) |-> errorReasonOf(report[1].events[j])],
              ReportUsers)
        /\ GroupedFirstSeen(
              [j \in 1..Len(report[1].merchants) |->
                  [key |-> report[1].merchants[j].merchantId,
                   count |-> report[1].merchants[j].count,
                   uniqueUsers |-> report[1].merchants[j].uniqueUsers]],
              [j \in 1..Len(report[1].events) |->
                  IF report[1].events[j].merchant_id # << >>
                  THEN report[1].events[j].merchant_id ELSE UnknownKey],
              ReportUsers)

\* the reason ends with the card number suffix
EndsInCardSuffix(reason) ==
    \E k \in 0..Len(reason) : SubSeq(reason, k + 1, Len(reason)) = CardNumberSuffix

\* the bucket the claim gives an event
BucketOf(event) ==
    IF event.paymentErrorReason = << >> THEN << "Unknown" >>
    ELSE IF EndsInCardSuffix(event.paymentErrorReason)
         THEN << "Invalid", "card", "number", "(grouped)" >>
         ELSE event.paymentErrorReason

\* the reasons of the processed events are a card number reason, 'Insufficient Funds',
\* and another card number reason
CardScenario ==
    /\ Processed
    /\ Len(report[1].events) = 3
    /\ report[1].events[2].paymentErrorReason = << "Insufficient", "Funds" >>
    /\ EndsInCardSuffix(report[1].events[1].paymentErrorReason)
    /\ EndsInCardSuffix(report[1].events[3].paymentErrorReason)
    /\ report[1].events[1].paymentErrorReason # report[1].events[3].paymentErrorReason

\* C19: processPaymentErrors puts every reason ending with 'is not a valid card number'
\* into the one bucket 'Invalid card number (grouped)' and leaves every other reason its
\* own bucket, a missing reason counting as 'Unknown'; for a card number reason,
\* 'Insufficient Funds' and another card number reason the output is the grouped bucket
\* with count 2, then 'Insufficient Funds' with count 1.
C19_CardNumberReasonsGrouped ==
    Processed =>
        /\ { report[1].errorReasons[j].reason : j \in 1..Len(report[1].errorReasons) }
             = { BucketOf(ev) : ev \in Elements(report[1].events) }
        /\ \A j \in 1..Len(report[1].errorReasons) :
              report[1].errorReasons[j].count =
                  Cardinality({ a \in 1..Len(report[1].events) :
                                  BucketOf(report[1].events[a]) = report[1].errorReasons[j].reason })
        /\ CardScenario =>
              [j \in 1..Len(report[1].errorReasons) |->
                  << report[1].errorReasons[j].reason, report[1].errorReasons[j].count >>]
                = << << << "Invalid", "card", "number", "(grouped)" >>, 2 >>,
                     << << "Insufficient", "Funds" >>, 1 >> >>

\* the three reasons of the scenario were processed
C19_Witness ==
    /\ CardScenario
    /\ Len(report[1].errorReasons) = 2

\* ---- the fetch loop -----------------------------------------------------
\* C27: within one run of fetchMissingChunks the missing windows are handled one at a
\* time in chronological order, the chunk of a window is on disk before the fetch of the
\* next window starts, and a failed fetch does not end the run: the run returns only
\* after every missing window has been fetched.
C27_WindowsInOrderRunContinues ==
    /\ [](pc = "fetching" =>
            /\ \A a, b \in 1..Len(missingRanges) :
                  a < b => missingRanges[a].end < missingRanges[b].start
            /\ \A a \in 1..i :
                  << missingRanges[a].start, missingRanges[a].end >> \in DOMAIN chunkDir)
    /\ [][IsFetchStep =>
            /\ lastFetch'[1].start = missingRanges[i + 1].start
            /\ lastFetch'[1].end = missingRanges[i + 1].end
            /\ pc' = "fetching"
            /\ missingRanges' = missingRanges]_vars
    /\ [][(pc = "fetching" /\ (pc' # "fetching" \/ (repeated' /\ ~repeated))) =>
            i = Len(missingRanges)]_vars

\* the fetch of a window failed and the run goes on with the windows after it
C27_Witness ==
    /\ pc = "fetching"
    /\ lastFetch # << >>
    /\ lastFetch[1].threw
    /\ i >= 1
    /\ i < Len(missingRanges)

\* the run of fetchMissingChunks is about to return
RunReturns ==
    /\ pc = "fetching"
    /\ i = Len(missingRanges)

\* C28: when a run of fetchMissingChunks over [start, end] returns, every window that
\* getDateRanges plans for the range has a chunk file of exactly its (start, end) pair,
\* whatever mix of cached, fetched, empty and failed windows the run met.
C28_AllPlannedOnDiskAtReturn ==
    RunReturns =>
        \A j \in 1..Len(RunPlan) :
            /\ getChunkFilename(RunPlan[j].start, RunPlan[j].end) \in DOMAIN chunkDir
            /\ chunkDir[getChunkFilename(RunPlan[j].start, RunPlan[j].end)].dateRangeStart
                  = RunPlan[j].start
            /\ chunkDir[getChunkFilename(RunPlan[j].start, RunPlan[j].end)].dateRangeEnd
                  = RunPlan[j].end

\* a run returns after a failed fetch, over a plan of which one window was cached
C28_Witness ==
    /\ RunReturns
    /\ ~repeated
    /\ lastFetch # << >>
    /\ lastFetch[1].threw
    /\ Len(missingRanges) >= 1
    /\ Len(missingRanges) < Len(RunPlan)

\* ---- the migration of the legacy cache -----------------------------------
\* the legacy content, under whichever of the two names holds it
LegacyContent == IF oldCache # << >> THEN oldCache ELSE backupFile

\* what the migration plans and collects for the legacy file still in place
MigrationMinimal == extractAll(oldCache[1])
MigrationPlan ==
    getDateRanges(minDateOf(MigrationMinimal), maxDateOf(MigrationMinimal),
                  MIGRATE_CHUNK_DAYS)
MigrationEventsOf(range) ==
    collectChunkEvents(MigrationMinimal, eventDates(MigrationMinimal, {}), range)
IsRenameStep == backupFile' # backupFile

\* C21: the migration never deletes the legacy data: every step keeps the legacy
\* content under its original or its '.backup' name; the rename happens only at the end
\* of the save loop, with the chunk of every planned window that has events on disk;
\* and with the legacy file absent nothing is planned, written by the migration, or
\* renamed.
C21_LegacyNeverDeleted ==
    /\ [](oldCache = << >> \/ backupFile = << >>)
    /\ [][LegacyContent' = LegacyContent]_vars
    /\ [][IsRenameStep =>
             /\ pc = "migrating" /\ dateRanges = << >>
             /\ backupFile' = oldCache /\ oldCache' = << >>
             /\ \A j \in 1..Len(MigrationPlan) :
                   Len(MigrationEventsOf(MigrationPlan[j])) > 0 =>
                       /\ << MigrationPlan[j].start, MigrationPlan[j].end >>
                             \in DOMAIN chunkDir
                       /\ chunkDir[<< MigrationPlan[j].start, MigrationPlan[j].end >>].events
                             = MigrationEventsOf(MigrationPlan[j])]_vars
    /\ [][oldCache = << >> =>
             /\ pc' # "migrating" /\ dateRanges' = << >>
             /\ oldCache' = << >> /\ backupFile' = backupFile
             /\ (chunkDir' # chunkDir => IsFetchStep)]_vars

\* a legacy file was renamed after the migration alone wrote two chunks
C21_Witness ==
    /\ backupFile # << >>
    /\ oldCache = << >>
    /\ pc = "idle"
    /\ i = 0
    /\ Cardinality(DOMAIN chunkDir) >= 2

\* C29: at the rename, each event of the legacy file is stored in exactly one chunk
\* of the migration, the one whose window contains the date of the event.
C29_MigrationConservesEvents ==
    [][IsRenameStep =>
          \A k \in 1..Len(MigrationMinimal) :
              LET ev == MigrationMinimal[k]
                  holding == { j \in 1..Len(MigrationPlan) :
                                 /\ << MigrationPlan[j].start, MigrationPlan[j].end >>
                                       \in DOMAIN chunkDir
                                 /\ ev \in Elements(chunkDir[<< MigrationPlan[j].start,
                                                               MigrationPlan[j].end >>].events) }
              IN  /\ Cardinality(holding) = 1
                  /\ \A j \in holding :
                        /\ MigrationPlan[j].start <= timestampDate(ev.timestamp)
                        /\ timestampDate(ev.timestamp) <= MigrationPlan[j].end]_vars

\* ---- the concurrent form requests -----------------------------------------
GravityCalled == gravity # << >>
FormLoop(f) == gravity[1].loops[f]
FormFailed(f) ==
    /\ FormLoop(f).responses # << >>
    /\ ~FormLoop(f).responses[Len(FormLoop(f).responses)].ok

\* the entries dated within the range among the pages a form was answered with
RECURSIVE InRangeEntries(_, _, _)
InRangeEntries(responses, s, e) ==
    IF responses = << >> THEN << >>
    ELSE (IF Head(responses).ok
          THEN SelectSeq(Head(responses).entries,
                         LAMBDA entry : s <= entry.date_created /\ entry.date_created <= e)
          ELSE << >>)
         \o InRangeEntries(Tail(responses), s, e)

\* C26: the concurrent per-form requests do not interfere: whatever the order in
\* which the responses arrive, the response to one form changes the loop of that form
\* alone; the entries of a form are the in-range entries of its own pages, a failed
\* form keeping those gathered before the failure; and once every form is through,
\* failed or not, the data is assembled with each form's own count.
C26_FormRequestsIndependent ==
    /\ [](GravityCalled =>
            \A f \in FORMS :
                /\ FormLoop(f).allEntries
                      = InRangeEntries(FormLoop(f).responses, gravity[1].startDate,
                                       gravity[1].endDate)
                /\ gravity[1].data # << >> =>
                      /\ FormLoop(f).done
                      /\ gravity[1].data[1].total[f] = Len(FormLoop(f).allEntries))
    /\ [][(GravityCalled /\ GravityCalled') =>
             \A f, g \in FORMS :
                 (FormLoop(f)' # FormLoop(f) /\ g # f) => FormLoop(g)' = FormLoop(g)]_vars
    /\ [][(GravityCalled /\ (\A f \in FORMS : FormLoop(f).done) /\ gravity[1].data = << >>)
             => (GravityCalled' /\ gravity'[1].data # << >>)]_vars

\* the data is assembled after one form failed on its second page and another form
\* was answered without a failure
C26_Witness ==
    /\ GravityCalled
    /\ gravity[1].data # << >>
    /\ \E f, g \in FORMS :
          /\ FormFailed(f)
          /\ Len(FormLoop(f).responses) >= 2
          /\ Len(FormLoop(f).allEntries) >= 1
          /\ ~FormFailed(g)
          /\ Len(FormLoop(g).allEntries) >= 1
          /\ Len(FormLoop(g).allEntries) # Len(FormLoop(f).allEntries)

\* ---- termination of the pagination loops ----------------------------------
ChunkRunning == paging.chunk # << >> /\ paging.chunk[1].result = << >>
ChunkStopped == paging.chunk # << >> /\ paging.chunk[1].result # << >>
FormRunning == paging.form # << >> /\ ~paging.form[1].loop.done
FormStopped == paging.form # << >> /\ paging.form[1].loop.done
IsLastFormPage(response) == ~response.ok \/ Len(response.entries) < pageSize

\* C30: the pagination loop of fetchDateRangeChunk stops, with a result, at the first
\* answer that is a failed request, a page without rel="next" link or an empty page,
\* and at no other; fetchFormEntries stops at the first failed, empty or short page,
\* and at no other; with an upstream that answers every request and comes to such an
\* answer, every call of either returns.
C30_PaginationTerminates ==
    /\ [](ChunkStopped <=> (paging.chunk # << >> /\ paging.chunk[1].last # << >>
                               /\ IsLastPage(paging.chunk[1].last[1])))
    /\ [](FormStopped <=>
             (paging.form # << >> /\ paging.form[1].loop.responses # << >>
                /\ IsLastFormPage(paging.form[1].loop.responses[
                                      Len(paging.form[1].loop.responses)])))
    /\ (ChunkRunning ~> ChunkStopped)
    /\ (FormRunning ~> FormStopped)

\* both loops have stopped: the one at an empty page that carried a rel="next" link,
\* on its second request, the other at a short page after a full one
C30_Witness ==
    /\ ChunkStopped
    /\ paging.chunk[1].last[1].ok
    /\ paging.chunk[1].last[1].next
    /\ Len(paging.chunk[1].allEvents) >= 1
    /\ FormStopped
    /\ Len(paging.form[1].loop.responses) >= 2
    /\ paging.form[1].loop.responses[Len(paging.form[1].loop.responses)].ok

\* ---- the weekly run ---------------------------------------------------------
WeeklyRun == weekly[1]
WeeklyStarted == weekly # << >>
ReportWindowFile == getChunkFilename(reportStart, reportEnd)
\* some file of the issue overlaps the report period and is not valid chunk data
InvalidOverlapping(issue) ==
    \E file \in WeeklyRun.disks[issue].invalid :
        file[2] >= WeeklyRun.startDateStr /\ file[1] <= WeeklyRun.endDateStr
IsSentryStep(issue) ==
    /\ WeeklyStarted
    /\ WeeklyRun.pc = (IF issue = "payment_error" THEN "fetch_error" ELSE "fetch_success")
    /\ weekly' # weekly

\* C22: with an invalid chunk file overlapping the report period on disk, the reader
\* fails instead of skipping the file: the run never gets to generate a report and the
\* process exits with status 1; and the fetch step counts a file named after the
\* window as present: it issues no request for the issue and leaves the file as it is.
C22_InvalidChunkFatalNotRefetched ==
    /\ [](WeeklyStarted =>
            ((\E issue \in Issues : InvalidOverlapping(issue)) =>
                /\ WeeklyRun.pc \notin {"generate", "email", "returned"}
                /\ WeeklyRun.htmlFile = << >>
                /\ WeeklyRun.email = "none"
                /\ {"html", "pdf"} \cap WeeklyRun.written = {}
                /\ WeeklyRun.exitCode # 0))
    /\ [][(WeeklyStarted /\ WeeklyRun.pc = "load" /\ weekly' # weekly
              /\ \E issue \in Issues : InvalidOverlapping(issue))
             => (weekly'[1].pc = "exited" /\ weekly'[1].exitCode = 1)]_vars
    /\ [][\A issue \in Issues :
             (IsSentryStep(issue) /\ ReportWindowFile \in WeeklyRun.disks[issue].invalid)
                 => /\ weekly'[1].disks[issue] = WeeklyRun.disks[issue]
                    /\ issue \notin weekly'[1].requested]_vars

\* a run with the Sentry fetch enabled has exited with status 1 on an invalid chunk
\* file named after the window, having fetched the other issue
C22_Witness ==
    /\ WeeklyStarted
    /\ WeeklyRun.pc = "exited"
    /\ WeeklyRun.exitCode = 1
    /\ WeeklyRun.missing = {}
    /\ ~WeeklyRun.options.skipSentry
    /\ ReportWindowFile \in WeeklyRun.disks.payment_error.invalid
    /\ "payment_success" \in WeeklyRun.requested
    /\ WeeklyRun.htmlFile = << >>

\* C23: the email stage is entered only with skipEmail false and a PDF produced, and
\* after the report was generated; whether the email is sent or the sending fails,
\* the run returns its HTML and PDF file names and the process exits with status 0.
C23_EmailFailureCaught ==
    /\ [](WeeklyStarted =>
            /\ WeeklyRun.email # "none" =>
                  /\ ~WeeklyRun.options.skipEmail
                  /\ WeeklyRun.pdfFile # << >>
                  /\ WeeklyRun.htmlFile # << >>
                  /\ WeeklyRun.pc \in {"returned", "exited"}
                  /\ WeeklyRun.exitCode \in {NoDate, 0}
            /\ WeeklyRun.pc = "returned" => WeeklyRun.htmlFile # << >>)
    /\ [][(WeeklyStarted /\ WeeklyRun.pc = "email" /\ weekly' # weekly) =>
             /\ weekly'[1].pc = "returned"
             /\ weekly'[1].htmlFile = WeeklyRun.htmlFile
             /\ weekly'[1].pdfFile = WeeklyRun.pdfFile
             /\ weekly'[1].email # "none"
                   <=> (~WeeklyRun.options.skipEmail /\ WeeklyRun.pdfFile # << >>)]_vars
    /\ [][(WeeklyStarted /\ WeeklyRun.pc = "returned" /\ weekly' # weekly) =>
             (weekly'[1].pc = "exited" /\ weekly'[1].exitCode = 0)]_vars

\* the sending of the email has failed, and the process has exited with status 0
C23_Witness ==
    /\ WeeklyStarted
    /\ WeeklyRun.email = "failed"
    /\ WeeklyRun.pc = "exited"
    /\ WeeklyRun.exitCode = 0
    /\ WeeklyRun.pdfFile # << >>

\* C24: a run started with a required credential missing issues no upstream request,
\* writes no chunk or data file, and generates no report.
C24_MissingCredentialAbortsBeforeWork ==
    (WeeklyStarted /\ WeeklyRun.missing # {}) =>
        /\ WeeklyRun.requested = {}
        /\ WeeklyRun.written = {}
        /\ WeeklyRun.htmlFile = << >>

\* C25: a run whose two loaded event lists are both empty generates and emails no
\* report, and exits with a status other than 0.
C25_NoEventsFatal ==
    (/\ WeeklyStarted
     /\ WeeklyRun.pc \in {"email", "returned", "exited"}
     /\ WeeklyRun.exitCode # 1
     /\ WeeklyRun.errorEvents = << >>
     /\ WeeklyRun.successEvents = << >>) =>
        /\ WeeklyRun.htmlFile = << >>
        /\ WeeklyRun.email = "none"
        /\ WeeklyRun.exitCode # 0

====
